---- MODULE Spec2Model ----
(***************************************************************************)
(* planetsim-rs: hierarchical orbital-mechanics engine (Simulation) over   *)
(* an arbitrary-precision vector / rotation-matrix layer.                  *)
(*                                                                         *)
(* Decimal scalars are modelled by integers with exact arithmetic.  An     *)
(* angle is carried as a whole number of quarter turns, so that sin and    *)
(* cos are exact; orbit and rotation periods divide 4 and times are whole  *)
(* numbers, which makes every phase fraction a multiple of 1/4.            *)
(***************************************************************************)
EXTENDS Integers, Sequences, FiniteSets, TLC

\* ------------------------------------------------------------------ bounds
MaxBodies == 4
MaxCalls == 2
MaxTime == 3

\* ------------------------------------------------------------ Option<i32>
None == <<>>
Some(x) == <<x>>
IsSome(o) == o # <<>>
Unwrap(o) == o[1]

\* -------------------------------------------------------- DecimalVector3d
Vec(x, y, z) == [x |-> x, y |-> y, z |-> z]

zero == Vec(0, 0, 0)

VecAdd(a, b) == Vec(a.x + b.x, a.y + b.y, a.z + b.z)

VecSub(a, b) == Vec(a.x - b.x, a.y - b.y, a.z - b.z)

length_squared(v) == v.x * v.x + v.y * v.y + v.z * v.z

\* A non-negative Decimal that is the exact square root of `square`;
\* INFINITY is DBig::INFINITY, above every finite value.
sqrt(square) == [inf |-> FALSE, square |-> square]

INFINITY == [inf |-> TRUE, square |-> 0]

\* a < b on such values
Less(a, b) == ~a.inf /\ (b.inf \/ a.square < b.square)

length(v) == sqrt(v.x * v.x + v.y * v.y + v.z * v.z)

distance_to(a, rhs) == LET difference == VecSub(a, rhs) IN length(difference)

\* ------------------------------------------------- trig/constant provider
\* Angles are whole numbers of quarter turns: PIMUL2 is 4 quarter turns.
PIMUL2 == 4

QuarterMod(q) == q % 4

cos(q) == CASE QuarterMod(q) = 0 -> 1
            [] QuarterMod(q) = 1 -> 0
            [] QuarterMod(q) = 2 -> -1
            [] QuarterMod(q) = 3 -> 0

sin(q) == CASE QuarterMod(q) = 0 -> 0
            [] QuarterMod(q) = 1 -> 1
            [] QuarterMod(q) = 2 -> 0
            [] QuarterMod(q) = 3 -> -1

\* (time / period).fract() * PIMUL2: the fractional part keeps the sign of
\* the quotient (truncation towards zero); the result is in quarter turns.
TruncRem(a, b) == IF a >= 0 THEN a % b ELSE -((-a) % b)

PhaseAngle(time, period) == (PIMUL2 * TruncRem(time, period)) \div period

\* -------------------------------------------------------- DecimalMatrix3d
identity == << <<1, 0, 0>>, <<0, 1, 0>>, <<0, 0, 1>> >>

axis_angle(axis, angle) ==
    LET c == cos(-angle)
        s == sin(-angle)
        one_minus_c == 1 - c
    IN << << one_minus_c * axis.x * axis.x + c,
             one_minus_c * axis.x * axis.y - axis.z * s,
             one_minus_c * axis.z * axis.x + axis.y * s >>,
          << one_minus_c * axis.x * axis.y + axis.z * s,
             one_minus_c * axis.y * axis.y + c,
             one_minus_c * axis.y * axis.z - axis.x * s >>,
          << one_minus_c * axis.z * axis.x - axis.y * s,
             one_minus_c * axis.y * axis.z + axis.x * s,
             one_minus_c * axis.z * axis.z + c >> >>

apply(m, v) ==
    Vec(m[1][1] * v.x + m[2][1] * v.y + m[3][1] * v.z,
        m[1][2] * v.x + m[2][2] * v.y + m[3][2] * v.z,
        m[1][3] * v.x + m[2][3] * v.y + m[3][3] * v.z)

\* ------------------------------------------------------------------- Body
StaticBodyDynamics(position) == [kind |-> "Static", position |-> position]

OrbitingBodyDynamics(orbit_radius, orbit_period, orbit_plane_normal) ==
    [kind |-> "Orbiting", orbit_radius |-> orbit_radius,
     orbit_period |-> orbit_period, orbit_plane_normal |-> orbit_plane_normal]

Body(name, dynamics, mass, satellites, rotation_axis, rotation_period) ==
    [name |-> name, dynamics |-> dynamics, mass |-> mass,
     satellites |-> satellites, rotation_axis |-> rotation_axis,
     rotation_period |-> rotation_period]

IsStatic(b) == b.dynamics.kind = "Static"

AxisX == Vec(1, 0, 0)
AxisY == Vec(0, 1, 0)
AxisZ == Vec(0, 0, 1)

\* The input trees the callers register.
moon == Body("moon", OrbitingBodyDynamics(1, 2, AxisZ), 1, <<>>, AxisY, 2)

earth == Body("earth", OrbitingBodyDynamics(4, 4, AxisY), 6, <<moon>>, AxisY, 1)

sun == Body("sun", StaticBodyDynamics(Vec(6, 2, 3)), 20, <<earth>>, AxisY, 4)

probe == Body("probe", OrbitingBodyDynamics(2, 4, AxisZ), 1, <<>>, AxisX, 2)

rogue == Body("rogue", OrbitingBodyDynamics(3, 2, AxisY), 2, <<probe>>, AxisZ, 4)

station == Body("station", StaticBodyDynamics(Vec(0, 4, 0)), 1, <<probe>>, AxisZ, 1)

star == Body("star", StaticBodyDynamics(Vec(0, 0, 8)), 9, <<station>>, AxisY, 2)

dwarf == Body("dwarf", StaticBodyDynamics(Vec(-1, 0, 0)), 3, <<>>, AxisX, 4)

\* A body with two satellites, the first with a satellite of its own.
cluster == Body("cluster", StaticBodyDynamics(Vec(0, -3, 0)), 4, <<earth, probe>>, AxisZ, 2)

Trees == {sun, probe, rogue, star, dwarf, cluster}

\* ------------------------------------------------------------------ state
\* bodies, id_counter: the Simulation.  last_update: the time of the update
\* call, when the last call was an update.  after_other_update: the last call
\* was an update that directly followed an update with another time.
\* pass_log: the reads and writes of the last update pass.  panicked: a call
\* aborted.
VARIABLES bodies, id_counter, last_update, after_other_update, pass_log, panicked,
          cross_call

vars == <<bodies, id_counter, last_update, after_other_update, pass_log, panicked,
          cross_call>>

RECURSIVE TreeSize(_)
TreeSize(body) ==
    LET RECURSIVE Sum(_)
        Sum(i) == IF i = 0 THEN 0 ELSE TreeSize(body.satellites[i]) + Sum(i - 1)
    IN 1 + Sum(Len(body.satellites))

\* Simulation::new
Init ==
    /\ bodies = <<>>
    /\ id_counter = 0
    /\ last_update = None
    /\ after_other_update = FALSE
    /\ pass_log = <<>>
    /\ panicked = FALSE
    /\ cross_call = None

\* add_hierarchy with the counter bumped only after the satellites were
\* flattened: a first satellite is handed its owner's id.
RECURSIVE add_hierarchy_late_bump(_, _, _)
add_hierarchy_late_bump(sim, body, parent) ==
    LET new_id == sim.id_counter
        RECURSIVE Sats(_, _, _)
        Sats(s, ids, i) ==
            IF i > Len(body.satellites) THEN [sim |-> s, ids |-> ids]
            ELSE LET r == add_hierarchy_late_bump(s, body.satellites[i], Some(new_id))
                 IN Sats(r.sim, Append(ids, r.id), i + 1)
        done == Sats([bodies |-> sim.bodies, id_counter |-> new_id], <<>>, 1)
        simulated_body == [id |-> new_id,
                           parent |-> parent,
                           satellites |-> done.ids,
                           body |-> body,
                           position |-> zero,
                           velocity |-> zero,
                           orientation |-> identity]
    IN [sim |-> [bodies |-> Append(done.sim.bodies, simulated_body),
                 id_counter |-> done.sim.id_counter + 1],
        id |-> new_id]

\* add_hierarchy handing its own parent argument down to the satellites.
RECURSIVE add_hierarchy_parent_passed_down(_, _, _)
add_hierarchy_parent_passed_down(sim, body, parent) ==
    LET new_id == sim.id_counter
        RECURSIVE Sats(_, _, _)
        Sats(s, ids, i) ==
            IF i > Len(body.satellites) THEN [sim |-> s, ids |-> ids]
            ELSE LET r == add_hierarchy_parent_passed_down(s, body.satellites[i], parent)
                 IN Sats(r.sim, Append(ids, r.id), i + 1)
        done == Sats([bodies |-> sim.bodies, id_counter |-> new_id + 1], <<>>, 1)
        simulated_body == [id |-> new_id,
                           parent |-> parent,
                           satellites |-> done.ids,
                           body |-> body,
                           position |-> zero,
                           velocity |-> zero,
                           orientation |-> identity]
    IN [sim |-> [bodies |-> Append(done.sim.bodies, simulated_body),
                 id_counter |-> done.sim.id_counter],
        id |-> new_id]

\* add_hierarchy handing the satellites the counter read after the bump
\* as their parent id.
RECURSIVE add_hierarchy_parent_from_counter(_, _, _)
add_hierarchy_parent_from_counter(sim, body, parent) ==
    LET new_id == sim.id_counter
        RECURSIVE Sats(_, _, _)
        Sats(s, ids, i) ==
            IF i > Len(body.satellites) THEN [sim |-> s, ids |-> ids]
            ELSE LET r == add_hierarchy_parent_from_counter(s, body.satellites[i],
                                                            Some(s.id_counter))
                 IN Sats(r.sim, Append(ids, r.id), i + 1)
        done == Sats([bodies |-> sim.bodies, id_counter |-> new_id + 1], <<>>, 1)
        simulated_body == [id |-> new_id,
                           parent |-> parent,
                           satellites |-> done.ids,
                           body |-> body,
                           position |-> zero,
                           velocity |-> zero,
                           orientation |-> identity]
    IN [sim |-> [bodies |-> Append(done.sim.bodies, simulated_body),
                 id_counter |-> done.sim.id_counter],
        id |-> new_id]

\* Simulation::add_hierarchy(body, parent) on the pair (bodies, id_counter):
\* the record is pushed after its satellites' records.
RECURSIVE add_hierarchy(_, _, _)
add_hierarchy(sim, body, parent) ==
    LET new_id == sim.id_counter
        RECURSIVE Sats(_, _, _)
        Sats(s, ids, i) ==
            IF i > Len(body.satellites) THEN [sim |-> s, ids |-> ids]
            ELSE LET r == add_hierarchy(s, body.satellites[i], Some(new_id))
                 IN Sats(r.sim, Append(ids, r.id), i + 1)
        done == Sats([bodies |-> sim.bodies, id_counter |-> new_id + 1], <<>>, 1)
        simulated_body == [id |-> new_id,
                           parent |-> parent,
                           satellites |-> done.ids,
                           body |-> body,
                           position |-> zero,
                           velocity |-> zero,
                           orientation |-> identity]
    IN [sim |-> [bodies |-> Append(done.sim.bodies, simulated_body),
                 id_counter |-> done.sim.id_counter],
        id |-> new_id]

\* get_body_by_id / get_mut_body_by_id: the index of the first record with
\* that id, 0 when there is none.
get_body_by_id(bs, id) ==
    IF \E i \in 1 .. Len(bs) : bs[i].id = id
    THEN CHOOSE i \in 1 .. Len(bs) :
            bs[i].id = id /\ \A j \in 1 .. i - 1 : bs[j].id # id
    ELSE 0

\* get_body_by_name with a scan that starts at the second record.
get_body_by_name_skips_first(bs, name) ==
    IF \E i \in 2 .. Len(bs) : bs[i].body.name = name
    THEN CHOOSE i \in 2 .. Len(bs) :
            bs[i].body.name = name /\ \A j \in 2 .. i - 1 : bs[j].body.name # name
    ELSE 0

\* get_body_by_name: the index of the first record with that name, 0 if none.
get_body_by_name(bs, name) ==
    IF \E i \in 1 .. Len(bs) : bs[i].body.name = name
    THEN CHOOSE i \in 1 .. Len(bs) :
            bs[i].body.name = name /\ \A j \in 1 .. i - 1 : bs[j].body.name # name
    ELSE 0

\* resolve_hierarchy_down listing a satellite after its own down-hierarchy.
RECURSIVE resolve_hierarchy_down_postorder(_, _)
resolve_hierarchy_down_postorder(bs, body) ==
    LET RECURSIVE Loop(_, _)
        Loop(result, i) ==
            IF i > Len(body.satellites) THEN result
            ELSE LET sat == get_body_by_id(bs, body.satellites[i])
                 IN IF sat = 0 THEN Loop(result, i + 1)
                    ELSE Loop(result \o resolve_hierarchy_down_postorder(bs, bs[sat])
                                     \o <<sat>>,
                              i + 1)
    IN Loop(<<>>, 1)

\* resolve_hierarchy_down listing all satellites of a record before the
\* down-hierarchy of any of them.
RECURSIVE resolve_hierarchy_down_siblings_first(_, _)
resolve_hierarchy_down_siblings_first(bs, body) ==
    LET RECURSIVE Sats(_, _)
        Sats(result, i) ==
            IF i > Len(body.satellites) THEN result
            ELSE LET sat == get_body_by_id(bs, body.satellites[i])
                 IN IF sat = 0 THEN Sats(result, i + 1)
                    ELSE Sats(Append(result, sat), i + 1)
        RECURSIVE Subs(_, _)
        Subs(result, i) ==
            IF i > Len(body.satellites) THEN result
            ELSE LET sat == get_body_by_id(bs, body.satellites[i])
                 IN IF sat = 0 THEN Subs(result, i + 1)
                    ELSE Subs(result \o resolve_hierarchy_down_siblings_first(bs, bs[sat]),
                              i + 1)
    IN Subs(Sats(<<>>, 1), 1)

\* resolve_hierarchy_down: the records (as indices into bs) below a record,
\* each satellite followed by its own down-hierarchy.
RECURSIVE resolve_hierarchy_down(_, _)
resolve_hierarchy_down(bs, body) ==
    LET RECURSIVE Loop(_, _)
        Loop(result, i) ==
            IF i > Len(body.satellites) THEN result
            ELSE LET sat == get_body_by_id(bs, body.satellites[i])
                 IN IF sat = 0 THEN Loop(result, i + 1)
                    ELSE Loop(Append(result, sat) \o resolve_hierarchy_down(bs, bs[sat]),
                              i + 1)
    IN Loop(<<>>, 1)

\* The call depth at which resolve_hierarchy_up exhausts the stack: a chain
\* of parent links longer than the number of records revisits a record.
StackLimit(bs) == Len(bs)

StackOverflow == <<-1>>

\* resolve_hierarchy_up appending the parent after the parent's own chain.
RECURSIVE resolve_hierarchy_up_farthest_first(_, _, _)
resolve_hierarchy_up_farthest_first(bs, body, depth) ==
    IF depth > StackLimit(bs) THEN StackOverflow
    ELSE IF ~IsSome(body.parent) THEN <<>>
    ELSE LET parent == get_body_by_id(bs, Unwrap(body.parent))
         IN IF parent = 0 THEN <<>>
            ELSE LET sub_result ==
                         resolve_hierarchy_up_farthest_first(bs, bs[parent], depth + 1)
                 IN IF sub_result = StackOverflow THEN StackOverflow
                    ELSE sub_result \o <<parent>>

\* resolve_hierarchy_up: the records (as indices into bs) above a record,
\* nearest first; StackOverflow when the recursion does not return.
RECURSIVE resolve_hierarchy_up_from(_, _, _)
resolve_hierarchy_up_from(bs, body, depth) ==
    IF depth > StackLimit(bs) THEN StackOverflow
    ELSE IF ~IsSome(body.parent) THEN <<>>
    ELSE LET parent == get_body_by_id(bs, Unwrap(body.parent))
         IN IF parent = 0 THEN <<>>
            ELSE LET sub_result == resolve_hierarchy_up_from(bs, bs[parent], depth + 1)
                 IN IF sub_result = StackOverflow THEN StackOverflow
                    ELSE <<parent>> \o sub_result

resolve_hierarchy_up(bs, body) == resolve_hierarchy_up_from(bs, body, 0)

\* get_body_position panics when an Orbiting record has no parent id or its
\* parent id names no record.
get_body_position_panics(bs, body) ==
    /\ ~IsStatic(body.body)
    /\ \/ ~IsSome(body.parent)
       \/ get_body_by_id(bs, Unwrap(body.parent)) = 0

get_body_position(bs, time, body) ==
    IF IsStatic(body.body) THEN body.body.dynamics.position
    ELSE LET dynamics == body.body.dynamics
             parent == bs[get_body_by_id(bs, Unwrap(body.parent))]
             angle == PhaseAngle(time, dynamics.orbit_period)
             rotation_matrix == axis_angle(dynamics.orbit_plane_normal, angle)
         IN VecAdd(apply(rotation_matrix, Vec(dynamics.orbit_radius, 0, 0)),
                   parent.position)

get_body_orientation(time, body) ==
    LET angle == PhaseAngle(time, body.body.rotation_period)
    IN axis_angle(body.body.rotation_axis, angle)

\* update's first loop without the match on the dynamics: the down-hierarchy
\* of every record is scheduled.
update_schedule_all(bs) ==
    LET RECURSIVE Loop(_, _)
        Loop(schedule, i) ==
            IF i > Len(bs) THEN schedule
            ELSE LET hierarchy == resolve_hierarchy_down(bs, bs[i])
                 IN Loop(schedule \o [k \in 1 .. Len(hierarchy) |-> bs[hierarchy[k]].id],
                         i + 1)
    IN Loop(<<>>, 1)

\* The first loop of update: the ids of the down-hierarchy of every record
\* with Static dynamics, in the order of the stored records.
update_schedule(bs) ==
    LET RECURSIVE Loop(_, _)
        Loop(schedule, i) ==
            IF i > Len(bs) THEN schedule
            ELSE IF IsStatic(bs[i].body)
                 THEN LET hierarchy == resolve_hierarchy_down(bs, bs[i])
                      IN Loop(schedule \o [k \in 1 .. Len(hierarchy) |-> bs[hierarchy[k]].id],
                              i + 1)
                 ELSE Loop(schedule, i + 1)
    IN Loop(<<>>, 1)

\* The second loop of update.  The log records, for each scheduled id, whether
\* the record's parent had been written earlier in this pass.
update_pass(bs0, time, schedule) ==
    LET RECURSIVE Loop(_, _, _, _)
        Loop(bs, i, written, log) ==
            IF i > Len(schedule) THEN [bodies |-> bs, log |-> log, panicked |-> FALSE]
            ELSE LET idx == get_body_by_id(bs, schedule[i])
                 IN IF idx = 0 \/ get_body_position_panics(bs, bs[idx])
                    THEN [bodies |-> bs, log |-> log, panicked |-> TRUE]
                    ELSE LET body_immutable == bs[idx]
                             position == get_body_position(bs, time, body_immutable)
                             pos_second_ago == get_body_position(bs, time - 1, body_immutable)
                             velocity == VecSub(position, pos_second_ago)
                             orientation == get_body_orientation(time, body_immutable)
                             entry == [id |-> schedule[i],
                                       orbiting |-> ~IsStatic(body_immutable.body),
                                       parent_written |->
                                           /\ IsSome(body_immutable.parent)
                                           /\ Unwrap(body_immutable.parent) \in written]
                         IN Loop([bs EXCEPT ![idx].position = position,
                                            ![idx].velocity = velocity,
                                            ![idx].orientation = orientation],
                                 i + 1, written \cup {schedule[i]}, Append(log, entry))
    IN Loop(bs0, 1, {}, <<>>)

update(bs, time) == update_pass(bs, time, update_schedule(bs))

\* find_closest_static over every record, whatever its dynamics.
find_closest_static_any_dynamics(bs, point) ==
    LET RECURSIVE Loop(_, _, _)
        Loop(closest, min_distance, i) ==
            IF i > Len(bs) THEN closest
            ELSE LET distance == distance_to(bs[i].position, point)
                 IN IF Less(distance, min_distance)
                    THEN Loop(i, distance, i + 1)
                    ELSE Loop(closest, min_distance, i + 1)
    IN Loop(1, INFINITY, 1)

\* find_closest_static replacing the closest record on an equal distance too.
find_closest_static_last_tie(bs, point) ==
    LET RECURSIVE Loop(_, _, _)
        Loop(closest, min_distance, i) ==
            IF i > Len(bs) THEN closest
            ELSE IF IsStatic(bs[i].body)
                 THEN LET distance == distance_to(bs[i].position, point)
                      IN IF ~Less(min_distance, distance)
                         THEN Loop(i, distance, i + 1)
                         ELSE Loop(closest, min_distance, i + 1)
                 ELSE Loop(closest, min_distance, i + 1)
    IN Loop(1, INFINITY, 1)

\* find_closest_static: the index of the returned record; the call indexes
\* bodies[0] first and panics on an empty store.
find_closest_static_panics(bs) == Len(bs) = 0

find_closest_static(bs, point) ==
    LET RECURSIVE Loop(_, _, _)
        Loop(closest, min_distance, i) ==
            IF i > Len(bs) THEN closest
            ELSE IF IsStatic(bs[i].body)
                 THEN LET distance == distance_to(bs[i].position, point)
                      IN IF Less(distance, min_distance)
                         THEN Loop(i, distance, i + 1)
                         ELSE Loop(closest, min_distance, i + 1)
                 ELSE Loop(closest, min_distance, i + 1)
    IN Loop(1, INFINITY, 1)

\* find_closest_body panics with find_closest_static on an empty store.
find_closest_body_panics(bs) == find_closest_static_panics(bs)

\* find_closest_body starting its scan at the closest static record itself.
find_closest_body_with_static(bs, point) ==
    LET closest_static == find_closest_static(bs, point)
        down_hierarchy == <<closest_static>> \o resolve_hierarchy_down(bs, bs[closest_static])
        RECURSIVE Loop(_, _, _)
        Loop(closest, min_distance, i) ==
            IF i > Len(down_hierarchy) THEN closest
            ELSE LET distance == distance_to(bs[down_hierarchy[i]].position, point)
                 IN IF Less(distance, min_distance)
                    THEN Loop(down_hierarchy[i], distance, i + 1)
                    ELSE Loop(closest, min_distance, i + 1)
    IN Loop(down_hierarchy[1], distance_to(bs[down_hierarchy[1]].position, point), 2)

\* find_closest_body: the index of the returned record.
find_closest_body(bs, point) ==
    LET closest_static == find_closest_static(bs, point)
        down_hierarchy == resolve_hierarchy_down(bs, bs[closest_static])
        RECURSIVE Loop(_, _, _)
        Loop(closest, min_distance, i) ==
            IF i > Len(down_hierarchy) THEN closest
            ELSE LET distance == distance_to(bs[down_hierarchy[i]].position, point)
                 IN IF Less(distance, min_distance)
                    THEN Loop(down_hierarchy[i], distance, i + 1)
                    ELSE Loop(closest, min_distance, i + 1)
    IN IF Len(down_hierarchy) = 0 THEN closest_static
       ELSE Loop(down_hierarchy[1], distance_to(bs[down_hierarchy[1]].position, point), 2)

\* G_CONSTANT = 0.0000000000667408, in units of 10^-16.
G_CONSTANT == 667408

\* Decimal quotients and products the flux is made of, kept exact: the scalar
\* (1 / length) * (G_CONSTANT * mass / length_squared) is the pair of its
\* numerator and of the radicand of its length, and a sum of scaled vectors
\* is the list of its summands in the order they were added.
FluxZero == <<>>

FluxTerm(relative, len, strength_num, lsq) ==
    [dir |-> relative, num |-> strength_num,
     norm |-> len, norm_sq |-> lsq]

FluxAdd(flux, term) == Append(flux, term)

\* The records calculate_gravity_flux sums over, in the order of the loop.
gravity_hierarchy_without_static(bs, point) ==
    LET closest_static == find_closest_static(bs, point)
    IN resolve_hierarchy_down(bs, bs[closest_static])

gravity_hierarchy(bs, point) ==
    LET closest_static == find_closest_static(bs, point)
        hierarchy == resolve_hierarchy_down(bs, bs[closest_static])
    IN Append(hierarchy, closest_static)

\* A summed record sits exactly at the point: its length_squared is zero and
\* the two divisions of its summand have a zero divisor.
division_by_zero(bs, point) ==
    \E i \in 1 .. Len(gravity_hierarchy(bs, point)) :
        length_squared(VecSub(bs[gravity_hierarchy(bs, point)[i]].position, point)) = 0

calculate_gravity_flux(bs, point) ==
    LET hierarchy == gravity_hierarchy(bs, point)
        RECURSIVE Loop(_, _)
        Loop(flux, i) ==
            IF i > Len(hierarchy) THEN flux
            ELSE LET body == bs[hierarchy[i]]
                     relative == VecSub(body.position, point)
                     lsq == length_squared(relative)
                     len == sqrt(lsq)
                     strength_num == G_CONSTANT * body.body.mass
                 IN Loop(FluxAdd(flux, FluxTerm(relative, len, strength_num, lsq)), i + 1)
    IN Loop(FluxZero, 1)

\* DecimalVector3d * DBig.
VecScale(v, k) == Vec(v.x * k, v.y * k, v.z * k)

\* cross with the products of the y component added.
cross_y_added(a, b) ==
    LET ax == a.x  ay == a.y  az == a.z
        bx == b.x  by == b.y  bz == b.z
    IN Vec(ay * bz - az * by, az * bx + ax * bz, ax * by - ay * bx)

cross(a, b) ==
    LET ax == a.x  ay == a.y  az == a.z
        bx == b.x  by == b.y  bz == b.z
    IN Vec(ay * bz - az * by, az * bx - ax * bz, ax * by - ay * bx)

\* get_body: the index of the first record of that name; unwrap panics when
\* there is none.
get_body_panics(bs, body_name) == get_body_by_name(bs, body_name) = 0

get_body(bs, body_name) == get_body_by_name(bs, body_name)

get_surface_velocity_panics(bs, body_name) == get_body_by_name(bs, body_name) = 0

\* get_surface_velocity with the record's orbital velocity added in.
get_surface_velocity_plus_orbital(bs, body_name, relative_point) ==
    LET body == bs[get_body_by_name(bs, body_name)]
        axis == body.body.rotation_axis
        angular_body_vel == PIMUL2 \div body.body.rotation_period
        angular_velocity_vector == VecScale(axis, angular_body_vel)
    IN VecAdd(cross(angular_velocity_vector, relative_point), body.velocity)

get_surface_velocity(bs, body_name, relative_point) ==
    LET body == bs[get_body_by_name(bs, body_name)]
        axis == body.body.rotation_axis
        angular_body_vel == PIMUL2 \div body.body.rotation_period
        angular_velocity_vector == VecScale(axis, angular_body_vel)
    IN cross(angular_velocity_vector, relative_point)

\* The points the queries are asked about.
Points == {zero, Vec(0, 2, 0), Vec(0, 4, 0), Vec(4, 1, 0)}

\* The top-level add_hierarchy calls completed so far: one per record that
\* no satellite list names.
NumCalls(bs) ==
    Cardinality({i \in 1 .. Len(bs) :
        \A j \in 1 .. Len(bs) :
            \A k \in 1 .. Len(bs[j].satellites) : bs[j].satellites[k] # bs[i].id})

\* The parent arguments: none, record 0 and record 1.  In a first call Some(0)
\* names the record being inserted and Some(1) its first satellite, or no
\* record at all; in later calls they name stored records.
ParentArgs == {None, Some(0), Some(1)}

Times == 0 .. MaxTime

AddHierarchy ==
    /\ ~panicked
    /\ NumCalls(bodies) < MaxCalls
    /\ \E body \in Trees, parent \in ParentArgs :
         /\ id_counter + TreeSize(body) <= MaxBodies
         /\ LET r == add_hierarchy([bodies |-> bodies, id_counter |-> id_counter],
                                   body, parent)
            IN /\ bodies' = r.sim.bodies
               /\ id_counter' = r.sim.id_counter
    /\ last_update' = None
    /\ after_other_update' = FALSE
    /\ pass_log' = <<>>
    /\ UNCHANGED <<panicked, cross_call>>

Update ==
    /\ ~panicked
    /\ \E time \in Times :
         LET r == update(bodies, time)
         IN /\ bodies' = r.bodies
            /\ pass_log' = r.log
            /\ panicked' = r.panicked
            /\ last_update' = Some(time)
            /\ after_other_update' = (IsSome(last_update) /\ last_update # Some(time))
    /\ UNCHANGED <<id_counter, cross_call>>

Next == AddHierarchy \/ Update

Spec == Init /\ [][Next]_vars

\* A vector query on its own: one call of cross on a pair of vectors, with
\* an empty simulation beside it.
MaxCoord == 1

Coordinates == -MaxCoord .. MaxCoord

Vectors == {Vec(x, y, z) : x \in Coordinates, y \in Coordinates, z \in Coordinates}

InitCross ==
    /\ bodies = <<>>
    /\ id_counter = 0
    /\ last_update = None
    /\ after_other_update = FALSE
    /\ pass_log = <<>>
    /\ panicked = FALSE
    /\ \E a \in Vectors, b \in Vectors :
           cross_call = Some([a |-> a, b |-> b, out |-> None])

Cross ==
    /\ IsSome(cross_call)
    /\ Unwrap(cross_call).out = None
    /\ cross_call' = Some([Unwrap(cross_call) EXCEPT
                              !.out = Some(cross(Unwrap(cross_call).a, Unwrap(cross_call).b))])
    /\ UNCHANGED <<bodies, id_counter, last_update, after_other_update, pass_log, panicked>>

NextCross == Cross

SpecCross == InitCross /\ [][NextCross]_vars
\* ----------------------------------------------------------------- claims
Indices == 1 .. Len(bodies)

IdsOf(bs, idxs) == [k \in 1 .. Len(idxs) |-> bs[idxs[k]].id]

Range(f) == {f[k] : k \in DOMAIN f}

Count(f, v) == Cardinality({k \in DOMAIN f : f[k] = v})

\* The ids listed as satellites by the records with the given ids.
SatIds(bs, ids) ==
    UNION {Range(bs[i].satellites) : i \in {j \in 1 .. Len(bs) : bs[j].id \in ids}}

\* The record's parent id named a stored record when the record was inserted:
\* ids are handed out in increasing order, so that is an id below its own.
ParentExisted(b) == IsSome(b.parent) /\ Unwrap(b.parent) >= 0 /\ Unwrap(b.parent) < b.id

\* Every add_hierarchy call so far passed None or the id of a stored record.
ParentArgsExisted == \A i \in Indices : IsSome(bodies[i].parent) => ParentExisted(bodies[i])

\* C2: every record whose parent is set (to the id of a record stored before
\* it) is contained in resolve_hierarchy_down of its parent record.
C2_ParentDownContainsBody ==
    \A i \in Indices :
        ParentExisted(bodies[i]) =>
            LET parent == get_body_by_id(bodies, Unwrap(bodies[i].parent))
            IN parent # 0 /\ i \in Range(resolve_hierarchy_down(bodies, bodies[parent]))

\* resolve_hierarchy_up of record i is empty without a parent and otherwise
\* the chain parent, grandparent, ... up to a record without parent, holding
\* the parent id exactly once and the record's own id never.
UpIsAncestorChain(i) ==
    LET body == bodies[i]
        up == resolve_hierarchy_up(bodies, body)
    IN IF ~IsSome(body.parent) THEN up = <<>>
       ELSE /\ up # StackOverflow
            /\ Len(up) >= 1
            /\ bodies[up[1]].id = Unwrap(body.parent)
            /\ \A k \in 1 .. Len(up) - 1 :
                   bodies[up[k]].parent = Some(bodies[up[k + 1]].id)
            /\ ~IsSome(bodies[up[Len(up)]].parent)
            /\ Count(IdsOf(bodies, up), Unwrap(body.parent)) = 1
            /\ Count(IdsOf(bodies, up), body.id) = 0

\* C3 (as claimed): after any sequence of add_hierarchy calls,
\* resolve_hierarchy_up of every record is its ancestor chain, nearest first.
C3_UpIsAncestorChain_Any == \A i \in Indices : UpIsAncestorChain(i)

\* C3 (amended): the same, when every add_hierarchy call passed None or the id
\* of an already stored record as the parent argument.
C3_UpIsAncestorChain == ParentArgsExisted => \A i \in Indices : UpIsAncestorChain(i)

\* A tree attached under a stored record that has a parent itself.
C3_Witness ==
    /\ ParentArgsExisted
    /\ \E i \in Indices :
           /\ ParentExisted(bodies[i])
           /\ bodies[i].id \notin SatIds(bodies, {bodies[j].id : j \in Indices})
           /\ Len(resolve_hierarchy_up(bodies, bodies[i])) = 2

\* C4: the stored ids are exactly 0 .. n-1 with the counter at n, and every
\* record followed by its down-hierarchy carries consecutive increasing ids
\* (pre-order numbering: a subtree is numbered before the next sibling).
C4_IdsDensePreorder ==
    /\ id_counter = Len(bodies)
    /\ {bodies[i].id : i \in Indices} = 0 .. Len(bodies) - 1
    /\ \A i \in Indices :
           LET down == IdsOf(bodies, resolve_hierarchy_down(bodies, bodies[i]))
           IN \A k \in 1 .. Len(down) : down[k] = bodies[i].id + k

\* Two trees, one of them three levels deep.
C4_Witness ==
    /\ Len(bodies) = 4
    /\ \E i \in Indices : Len(resolve_hierarchy_down(bodies, bodies[i])) = 2

\* A freshly built simulation holding the same registered hierarchy.
Fresh(bs) ==
    [i \in 1 .. Len(bs) |->
        [bs[i] EXCEPT !.position = zero, !.velocity = zero, !.orientation = identity]]

Derived(bs) ==
    [i \in 1 .. Len(bs) |->
        [position |-> bs[i].position, velocity |-> bs[i].velocity,
         orientation |-> bs[i].orientation]]

Structure(bs) ==
    [i \in 1 .. Len(bs) |->
        [id |-> bs[i].id, body |-> bs[i].body, parent |-> bs[i].parent,
         satellites |-> bs[i].satellites]]

\* The ids reachable through satellite links from the records with Static
\* dynamics (those records themselves excluded unless reached).
RECURSIVE SatelliteClosure(_, _)
SatelliteClosure(bs, ids) ==
    LET next == ids \cup SatIds(bs, ids)
    IN IF next = ids THEN ids ELSE SatelliteClosure(bs, next)

StaticDescendants(bs) ==
    SatelliteClosure(bs, SatIds(bs, {bs[i].id : i \in {j \in 1 .. Len(bs) : IsStatic(bs[j].body)}}))

\* C1: right after update(t), whatever calls came before, the derived state
\* equals that of a fresh simulation with the same hierarchy after update(t).
C1_UpdateDependsOnlyOnTime ==
    IsSome(last_update) =>
        Derived(bodies) = Derived(update(Fresh(bodies), Unwrap(last_update)).bodies)

\* An update(t) that directly followed an update with another time, on a
\* hierarchy with a moving grandchild.
C1_Witness ==
    /\ IsSome(last_update) /\ after_other_update
    /\ \E i \in Indices :
           /\ Len(resolve_hierarchy_up(bodies, bodies[i])) = 2
           /\ bodies[i].position # zero
           /\ bodies[i].velocity # zero

\* The offset of an Orbiting record from its parent at a time.
OrbitOffset(body, time) ==
    apply(axis_angle(body.dynamics.orbit_plane_normal,
                     PhaseAngle(time, body.dynamics.orbit_period)),
          Vec(body.dynamics.orbit_radius, 0, 0))

\* C5: in an update pass every scheduled Orbiting record is computed after
\* its parent's position was written by the same pass.
C5_ParentWrittenBeforeChild ==
    \A k \in 1 .. Len(pass_log) : pass_log[k].orbiting => pass_log[k].parent_written

\* C6: after update(t) every Static record (root or nested) is at the fixed
\* position of its dynamics, and an Orbiting satellite of a Static record is
\* at that fixed position plus its orbit offset.
C6_StaticAtFixedPosition ==
    IsSome(last_update) =>
        \A i \in Indices :
            IsStatic(bodies[i].body) =>
                /\ bodies[i].position = bodies[i].body.dynamics.position
                /\ \A k \in 1 .. Len(bodies[i].satellites) :
                       LET sat == bodies[get_body_by_id(bodies, bodies[i].satellites[k])]
                       IN ~IsStatic(sat.body) =>
                              sat.position =
                                  VecAdd(OrbitOffset(sat.body, Unwrap(last_update)),
                                         bodies[i].body.dynamics.position)

\* C7: after update(t) the velocity of every scheduled record is its position
\* after update(t) minus its position after update(t - 1).
C7_VelocityIsBackwardDifference ==
    IsSome(last_update) =>
        LET second_ago == update(Fresh(bodies), Unwrap(last_update) - 1).bodies
        IN \A i \in Indices :
               bodies[i].id \in Range(update_schedule(bodies)) =>
                   bodies[i].velocity = VecSub(bodies[i].position, second_ago[i].position)

\* A record that is not below a Static record holds position zero, velocity
\* zero and orientation identity.
C8_UnreachableUntouched ==
    \A i \in Indices :
        bodies[i].id \notin StaticDescendants(bodies) =>
            /\ bodies[i].position = zero
            /\ bodies[i].velocity = zero
            /\ bodies[i].orientation = identity

\* An update step changes no record that is not below a Static record, and
\* no id, Body, parent, satellite list, nor the number of records.
C8_UpdateFrame ==
    IsSome(last_update') =>
        /\ Len(bodies') = Len(bodies)
        /\ Structure(bodies') = Structure(bodies)
        /\ id_counter' = id_counter
        /\ \A i \in Indices :
               bodies[i].id \notin StaticDescendants(bodies) => bodies'[i] = bodies[i]

\* C8: a record that is not below a Static record keeps position zero,
\* velocity zero and orientation identity, and an update step changes neither
\* such a record nor any id, Body, parent, satellite list or the record count.
C8_UpdateLeavesUnreachable == [](C8_UnreachableUntouched) /\ [][C8_UpdateFrame]_vars

\* After an update, an Orbiting record attached under a record that moved.
C8_Witness ==
    /\ IsSome(last_update)
    /\ \E i \in Indices :
           /\ ~IsStatic(bodies[i].body)
           /\ ParentExisted(bodies[i])
           /\ bodies[i].id \notin StaticDescendants(bodies)
           /\ bodies[get_body_by_id(bodies, Unwrap(bodies[i].parent))].position # zero
           /\ bodies[i].position = zero

Statics == {i \in Indices : IsStatic(bodies[i].body)}

\* Squared Euclidean distance of record i from a point.
Dist2(i, point) == length_squared(VecSub(bodies[i].position, point))

\* The Static records at minimum Euclidean distance from a point.
ClosestStatics(point) ==
    {i \in Statics : \A j \in Statics : Dist2(i, point) <= Dist2(j, point)}

\* C9: with at least one Static record stored, find_closest_static returns a
\* stored Static record at minimum Euclidean distance among the Static records.
C9_ClosestStaticIsMinimal ==
    \A point \in Points :
        Statics # {} =>
            /\ ~find_closest_static_panics(bodies)
            /\ find_closest_static(bodies, point) \in ClosestStatics(point)

\* An Orbiting record is stored first and is nearest to the point; the nearer
\* of two Static records is stored after the farther one and is returned.
C9_Witness ==
    /\ Len(bodies) >= 1
    /\ ~IsStatic(bodies[1].body)
    /\ \E i \in Statics, j \in Statics, point \in Points :
           /\ i < j
           /\ Dist2(j, point) < Dist2(i, point)
           /\ Dist2(1, point) < Dist2(j, point)
           /\ find_closest_static(bodies, point) = j

\* C10 (as claimed): among the Static records at minimum distance,
\* find_closest_static returns the one with the smallest id.
C10_TieToSmallestId ==
    \A point \in Points :
        Statics # {} =>
            \A j \in ClosestStatics(point) :
                bodies[find_closest_static(bodies, point)].id <= bodies[j].id

\* C10 (amended): among the Static records at minimum distance,
\* find_closest_static returns the one stored first in bodies; a record is
\* stored after all records of its down-hierarchy and before every record
\* inserted later that is not one of its ancestors.
C10_TieToFirstStored ==
    \A point \in Points :
        Statics # {} =>
            LET r == find_closest_static(bodies, point)
            IN \A j \in ClosestStatics(point) :
                   /\ r <= j
                   /\ r # j =>
                          IF j \in Range(resolve_hierarchy_down(bodies, bodies[r])) THEN FALSE
                          ELSE IF r \in Range(resolve_hierarchy_down(bodies, bodies[j]))
                               THEN bodies[r].id > bodies[j].id
                               ELSE bodies[r].id < bodies[j].id

\* A tie of three Static records: the returned one has neither the smallest
\* nor the largest id.
C10_Witness ==
    \E point \in Points :
        LET r == find_closest_static(bodies, point)
        IN /\ Statics # {}
           /\ \E j \in ClosestStatics(point) : bodies[j].id < bodies[r].id
           /\ \E j \in ClosestStatics(point) : bodies[j].id > bodies[r].id
\* The records (indices) below record i through satellite links.
DescendantsOf(i) ==
    {j \in Indices : bodies[j].id \in SatelliteClosure(bodies, SatIds(bodies, {bodies[i].id}))}

\* C11: find_closest_body returns the closest Static record itself exactly
\* when that record has no descendants; otherwise it returns a descendant of
\* it at minimum distance among its descendants only, the earliest of a tie
\* in pre-order, whatever the distances of the Static record and of the
\* records outside its down-hierarchy.
C11_ClosestBodyWithinDownHierarchy ==
    \A point \in Points :
        Statics # {} =>
            LET s == find_closest_static(bodies, point)
                r == find_closest_body(bodies, point)
                down == resolve_hierarchy_down(bodies, bodies[s])
            IN /\ ~find_closest_body_panics(bodies)
               /\ (r = s) <=> (DescendantsOf(s) = {})
               /\ DescendantsOf(s) # {} =>
                      /\ r \in DescendantsOf(s)
                      /\ \A j \in DescendantsOf(s) : Dist2(r, point) <= Dist2(j, point)
                      /\ \E k \in 1 .. Len(down) :
                             /\ down[k] = r
                             /\ \A m \in 1 .. k - 1 :
                                    Dist2(down[m], point) > Dist2(r, point)

\* The closest Static record and a record outside its down-hierarchy are both
\* strictly nearer to the point than the returned descendant, or two
\* descendants tie and the returned one is the first of them.
C11_Witness ==
    \E point \in Points :
        LET s == find_closest_static(bodies, point)
            r == find_closest_body(bodies, point)
        IN /\ Statics # {}
           /\ r \in DescendantsOf(s)
           /\ Dist2(s, point) < Dist2(r, point)
           /\ \E j \in Indices \ (DescendantsOf(s) \cup {s}) :
                  ~IsStatic(bodies[j].body) /\ Dist2(j, point) < Dist2(r, point)
           /\ \E j \in DescendantsOf(s) : Dist2(j, point) > Dist2(r, point)
\* The local system of the closest Static record: that record and the
\* records below it through satellite links.
LocalSystem(point) ==
    LET s == find_closest_static(bodies, point) IN DescendantsOf(s) \cup {s}

\* The contribution of record j at the point.
Contribution(bs, j, point) ==
    LET relative == VecSub(bs[j].position, point)
    IN [dir |-> relative, num |-> G_CONSTANT * bs[j].body.mass,
        norm |-> sqrt(length_squared(relative)),
        norm_sq |-> length_squared(relative)]

Masses == {0, 7}

WithMass(bs, i, mass) == [bs EXCEPT ![i].body.mass = mass]

\* C12: calculate_gravity_flux sums exactly one contribution for each record
\* of the local system of the closest Static record (that record and every
\* record below it through satellite links) and for no other record, and the
\* result is the same whatever the mass of a record outside the local system.
C12_FluxSumsLocalSystemOnly ==
    \A point \in Points :
        (Statics # {} /\ ~division_by_zero(bodies, point)) =>
            LET flux == calculate_gravity_flux(bodies, point)
                local == LocalSystem(point)
            IN /\ Len(flux) = Cardinality(local)
               /\ \A j \in local :
                      Count(flux, Contribution(bodies, j, point)) =
                          Cardinality({k \in local : Contribution(bodies, k, point)
                                                       = Contribution(bodies, j, point)})
               /\ \A i \in Indices \ local : \A mass \in Masses :
                      /\ find_closest_static(WithMass(bodies, i, mass), point)
                             = find_closest_static(bodies, point)
                      /\ calculate_gravity_flux(WithMass(bodies, i, mass), point) = flux

\* The local system has three records or more, a record outside it has a
\* mass and is no farther from the point than a record inside it, and the
\* mass of a record inside it does change the flux.
C12_Witness ==
    \E point \in Points :
        /\ Statics # {}
        /\ ~division_by_zero(bodies, point)
        /\ Cardinality(LocalSystem(point)) >= 3
        /\ \E i \in Indices \ LocalSystem(point) :
               /\ bodies[i].body.mass > 0
               /\ \E j \in LocalSystem(point) : Dist2(i, point) <= Dist2(j, point)
               /\ \E j \in LocalSystem(point) : bodies[j].position # zero
        /\ \A j \in LocalSystem(point) : \A mass \in Masses :
               calculate_gravity_flux(WithMass(bodies, j, mass), point)
                   # calculate_gravity_flux(bodies, point)
\* The names of the stored records.
StoredNames == {bodies[i].body.name : i \in Indices}

\* Record i with another position, velocity and dynamics.
Displaced(bs, i, position, velocity, dynamics) ==
    [bs EXCEPT ![i].position = position, ![i].velocity = velocity,
               ![i].body.dynamics = dynamics]

DynamicsChoices == {StaticBodyDynamics(Vec(1, 1, 1)), OrbitingBodyDynamics(5, 1, AxisX)}

PositionChoices == {zero, Vec(4, 1, 0)}

VelocityChoices == {zero, Vec(0, 2, 0)}

\* C13: get_surface_velocity is spin-only: for a stored name it is the cross
\* product of the named record's angular velocity vector (rotation_axis times
\* PIMUL2 / rotation_period) with relative_point, the same before the first
\* update and after any sequence of updates, and the same whatever the
\* record's orbital dynamics, position and velocity.
C13_SurfaceVelocitySpinOnly ==
    \A name \in StoredNames : \A relative_point \in Points :
        LET i == get_body_by_name(bodies, name)
            v == get_surface_velocity(bodies, name, relative_point)
            w == PIMUL2 \div bodies[i].body.rotation_period
            axis == bodies[i].body.rotation_axis
        IN /\ ~get_surface_velocity_panics(bodies, name)
           /\ v = get_surface_velocity(Fresh(bodies), name, relative_point)
           /\ v.x = w * (axis.y * relative_point.z - axis.z * relative_point.y)
           /\ v.y = w * (axis.z * relative_point.x - axis.x * relative_point.z)
           /\ v.z = w * (axis.x * relative_point.y - axis.y * relative_point.x)
           /\ \A position \in PositionChoices : \A velocity \in VelocityChoices :
                  \A dynamics \in DynamicsChoices :
                      get_surface_velocity(
                          Displaced(bodies, i, position, velocity, dynamics),
                          name, relative_point) = v

\* Two updates at different times have run, the named record has moved and
\* has an orbital velocity, and its surface velocity is not zero.
C13_Witness ==
    /\ after_other_update
    /\ \E name \in StoredNames : \E relative_point \in Points :
           LET i == get_body_by_name(bodies, name)
           IN /\ bodies[i].position # zero
              /\ bodies[i].velocity # zero
              /\ bodies[i].position # Fresh(bodies)[i].position
              /\ get_surface_velocity(bodies, name, relative_point) # zero
\* The names asked for: every name a tree can store and one that none does.
QueryNames ==
    {"sun", "earth", "moon", "probe", "rogue", "station", "star", "dwarf", "cluster", "pluto"}

QueryIds == -1 .. MaxBodies

\* C14: lookup is fail-fast: get_body(name) and get_surface_velocity(name, p)
\* abort exactly when no stored record has that name, and otherwise use a
\* stored record of that name; lookup by id returns the one record with that
\* id, or reports absence when there is none.
C14_LookupFailFast ==
    /\ \A name \in QueryNames :
           LET present == \E i \in Indices : bodies[i].body.name = name
               r == get_body(bodies, name)
           IN /\ get_body_panics(bodies, name) <=> ~present
              /\ get_surface_velocity_panics(bodies, name) <=> ~present
              /\ present =>
                     /\ r \in Indices
                     /\ bodies[r].body.name = name
                     /\ \A p \in Points :
                            get_surface_velocity(bodies, name, p) =
                                cross(VecScale(bodies[r].body.rotation_axis,
                                               PIMUL2 \div bodies[r].body.rotation_period), p)
    /\ \A id \in QueryIds :
           LET r == get_body_by_id(bodies, id)
           IN IF \E i \in Indices : bodies[i].id = id
              THEN /\ r \in Indices
                   /\ bodies[r].id = id
                   /\ \A j \in Indices : bodies[j].id = id => j = r
              ELSE r = 0

\* Two stored records share a name that is asked for, another name and an
\* id asked for are stored nowhere, and an update has run.
C14_Witness ==
    /\ IsSome(last_update)
    /\ \E i \in Indices : \E j \in Indices :
           i # j /\ bodies[i].body.name = bodies[j].body.name
    /\ \E name \in QueryNames : get_body_panics(bodies, name)
    /\ \E name \in QueryNames : ~get_surface_velocity_panics(bodies, name)
    /\ \E id \in QueryIds : id >= 0 /\ get_body_by_id(bodies, id) = 0
\* C15: cross is anti-symmetric: cross(a, b) is the componentwise negation
\* of cross(b, a), and cross(a, a) is the zero vector.
C15_CrossAntiSymmetric ==
    (IsSome(cross_call) /\ IsSome(Unwrap(cross_call).out)) =>
        LET a == Unwrap(cross_call).a
            b == Unwrap(cross_call).b
            out == Unwrap(Unwrap(cross_call).out)
        IN /\ out.x = -(cross(b, a).x)
           /\ out.y = -(cross(b, a).y)
           /\ out.z = -(cross(b, a).z)
           /\ a = b => out = zero

\* cross was called on two vectors that are not parallel: all three
\* components of the product are non-zero.
C15_Witness ==
    /\ IsSome(cross_call)
    /\ IsSome(Unwrap(cross_call).out)
    /\ Unwrap(Unwrap(cross_call).out).x # 0
    /\ Unwrap(Unwrap(cross_call).out).y # 0
    /\ Unwrap(Unwrap(cross_call).out).z # 0
\* The names of the bodies below a Body in depth-first pre-order: each
\* satellite, in the order of the satellites list, followed by its subtree.
RECURSIVE PreorderNames(_)
PreorderNames(body) ==
    LET RECURSIVE Cat(_)
        Cat(i) == IF i > Len(body.satellites) THEN <<>>
                  ELSE <<body.satellites[i].name>> \o PreorderNames(body.satellites[i])
                           \o Cat(i + 1)
    IN Cat(1)

NamesOf(bs, idxs) == [k \in 1 .. Len(idxs) |-> bs[idxs[k]].body.name]

\* C16: for every stored record, resolve_hierarchy_down lists every record
\* below it (through satellite links, the records made from the satellites of
\* its input Body) exactly once and never the record itself, in depth-first
\* pre-order: satellites in the order of the input Body's satellites list,
\* each followed by its whole subtree before its next sibling.
C16_DownIsPreorder ==
    \A i \in Indices :
        LET down == resolve_hierarchy_down(bodies, bodies[i])
        IN /\ Range(down) = DescendantsOf(i)
           /\ i \notin Range(down)
           /\ \A j \in DescendantsOf(i) : Count(down, j) = 1
           /\ NamesOf(bodies, down) = PreorderNames(bodies[i].body)
           /\ \A k \in 1 .. Len(down) :
                  LET size == Cardinality(DescendantsOf(down[k]))
                  IN /\ k + size <= Len(down)
                     /\ {down[m] : m \in k + 1 .. k + size} = DescendantsOf(down[k])

\* A record with two satellites, the first of which has a satellite of its
\* own, and an update has run.
C16_Witness ==
    /\ IsSome(last_update)
    /\ \E i \in Indices :
           /\ Len(bodies[i].satellites) >= 2
           /\ DescendantsOf(get_body_by_id(bodies, bodies[i].satellites[1])) # {}
           /\ Len(resolve_hierarchy_down(bodies, bodies[i])) >= 3
\* C17: update never aborts on a lookup miss, whatever parent arguments the
\* add_hierarchy calls were given: every id in update's schedule resolves to
\* a stored record, every scheduled Orbiting record has a parent id that
\* resolves to a stored record, and no update has aborted.
C17_UpdateNeverMissesLookup ==
    /\ ~panicked
    /\ LET schedule == update_schedule(bodies)
       IN \A k \in 1 .. Len(schedule) :
              LET idx == get_body_by_id(bodies, schedule[k])
              IN /\ idx \in Indices
                 /\ ~get_body_position_panics(bodies, bodies[idx])
                 /\ ~IsStatic(bodies[idx].body) =>
                        /\ IsSome(bodies[idx].parent)
                        /\ get_body_by_id(bodies, Unwrap(bodies[idx].parent)) \in Indices

\* An update has computed scheduled Orbiting records while the store holds
\* an Orbiting record whose parent id is None or names no record, and
\* a record whose parent id named no record when it was inserted.
C17_Witness ==
    /\ IsSome(last_update)
    /\ ~panicked
    /\ \E k \in 1 .. Len(pass_log) : pass_log[k].orbiting
    /\ \E i \in Indices : get_body_position_panics(bodies, bodies[i])
    /\ \E i \in Indices : IsSome(bodies[i].parent) /\ ~ParentExisted(bodies[i])

\* The records made by the add_hierarchy calls themselves: those in no
\* satellites list.
TreeRoots == {i \in Indices : bodies[i].id \notin SatIds(bodies, {bodies[j].id : j \in Indices})}

\* Every add_hierarchy call so far passed None or an id returned by an
\* earlier call: the id of a tree root stored before the call's own records.
ParentArgsReturnedEarlier ==
    \A i \in TreeRoots :
        IsSome(bodies[i].parent) =>
            \E j \in TreeRoots : j < i /\ bodies[j].id = Unwrap(bodies[i].parent)

\* C18: when every add_hierarchy call passed None or an id returned by an
\* earlier call, every record's parent id is strictly smaller than its own
\* id and every satellite id strictly larger than its owner's id, and
\* resolve_hierarchy_up and resolve_hierarchy_down return for every record.
C18_LinksAcyclic ==
    ParentArgsReturnedEarlier =>
        \A i \in Indices :
            /\ IsSome(bodies[i].parent) => Unwrap(bodies[i].parent) < bodies[i].id
            /\ \A k \in 1 .. Len(bodies[i].satellites) :
                   bodies[i].satellites[k] > bodies[i].id
            /\ resolve_hierarchy_up(bodies, bodies[i]) # StackOverflow
            /\ Len(resolve_hierarchy_up(bodies, bodies[i])) < Len(bodies)
            /\ Len(resolve_hierarchy_down(bodies, bodies[i])) < Len(bodies)

\* A tree of three levels was attached below the root of an earlier call.
C18_Witness ==
    /\ ParentArgsReturnedEarlier
    /\ \E i \in TreeRoots :
           /\ IsSome(bodies[i].parent)
           /\ bodies[i].satellites # <<>>
           /\ Len(resolve_hierarchy_up(bodies, bodies[i])) >= 1
    /\ \E i \in Indices : Len(resolve_hierarchy_up(bodies, bodies[i])) >= 2
====
